---- MODULE Spec2Model ----
(***************************************************************************)
(* Error taxonomy and HTTP response mapping of the ord server              *)
(* (src/subcommand/server/error.rs): ServerError, OptionExt and ApiError,  *)
(* driven by two requests that fail, are converted into a response and     *)
(* complete.                                                               *)
(*                                                                         *)
(* Text is a TLA+ string.  Two characters cannot be written in a TLA+      *)
(* string literal and are named instead: Grave is U+0060 (the lexer pairs  *)
(* it with a later prime) and REPLACEMENT_CHARACTER is U+FFFD.             *)
(***************************************************************************)
EXTENDS Integers, Sequences, FiniteSets, TLC

VARIABLES pc, input, value, labelRuns, failure, json, response, stderr

vars == <<pc, input, value, labelRuns, failure, json, response, stderr>>

(***************************************************************************)
(* Bounds and input sets                                                   *)
(***************************************************************************)
\* longest chain of underlying causes below an opaque error's own message
MaxSource == 1
\* lines the operator-facing error stream keeps
MaxLines == 2

Requests == {"r1", "r2"}

Grave == "<U+0060>"
REPLACEMENT_CHARACTER == "<U+FFFD>"

Messages == {"", "bad request"}
Labels == {"", "inscription 7"}
Values == {"v"}
CauseTexts == {"", "db password rejected"}
SourceTexts == {"disk failure"}

\* Option<T>
None == [some |-> FALSE]
Some(v) == [some |-> TRUE, value |-> v]

\* an opaque error value (anyhow::Error): its own message and the chain of
\* causes below it
SourceChains == UNION {[1..n -> SourceTexts] : n \in 0..MaxSource}
Errors == {[text |-> t, source |-> s] : t \in CauseTexts, s \in SourceChains}

\* Display of an error ({error}, to_string): the outermost message only
to_string(error) == error.text

\* a plain string seen as a ToString value
Str(s) == [text |-> s, source |-> <<>>]

\* AcceptEncoding(Option<String>)
AcceptEncodings == {None, Some(""), Some("gzip, deflate")}

\* HeaderValue: opaque bytes; 0xFF is never valid UTF-8
ContentEncodings == {<<98, 114>>, <<255>>, <<98, 255>>}

AsciiChar(b) == CASE b = 98 -> "b" [] b = 114 -> "r" [] OTHER -> "?"

RECURSIVE from_utf8_lossy(_)
from_utf8_lossy(bytes) ==
  IF bytes = <<>> THEN ""
  ELSE (IF Head(bytes) < 128 THEN AsciiChar(Head(bytes)) ELSE REPLACEMENT_CHARACTER)
       \o from_utf8_lossy(Tail(bytes))

(***************************************************************************)
(* http::StatusCode                                                        *)
(***************************************************************************)
BAD_REQUEST == 400
NOT_FOUND == 404
NOT_ACCEPTABLE == 406
INTERNAL_SERVER_ERROR == 500

canonical_reason(status) ==
  CASE status = BAD_REQUEST -> Some("Bad Request")
    [] status = NOT_FOUND -> Some("Not Found")
    [] status = NOT_ACCEPTABLE -> Some("Not Acceptable")
    [] status = INTERNAL_SERVER_ERROR -> Some("Internal Server Error")
    [] OTHER -> None

unwrap_or_default(opt) == IF opt.some THEN opt.value ELSE ""

(***************************************************************************)
(* Responses                                                               *)
(***************************************************************************)
CACHE_CONTROL == "cache-control"
CONTENT_TYPE == "content-type"

TextBody(s) == [kind |-> "text", text |-> s]
JsonBody(j) == [kind |-> "json", json |-> j]

\* (StatusCode, [headers], String).into_response()
TextResponse(status, headers, s) ==
  [status |-> status,
   headers |-> {<<CONTENT_TYPE, "text/plain; charset=utf-8">>} \cup headers,
   body |-> TextBody(s)]

\* (StatusCode, axum::Json(value)).into_response()
JsonResponse(status, j) ==
  [status |-> status,
   headers |-> {<<CONTENT_TYPE, "application/json">>},
   body |-> JsonBody(j)]

(***************************************************************************)
(* ServerError                                                             *)
(***************************************************************************)
ServerBadRequest(message) == [tag |-> "BadRequest", message |-> message]
ServerInternal(error) == [tag |-> "Internal", error |-> error]
ServerNotAcceptable(accept_encoding, content_encoding) ==
  [tag |-> "NotAcceptable",
   accept_encoding |-> accept_encoding,
   content_encoding |-> content_encoding]
ServerNotFound(message) == [tag |-> "NotFound", message |-> message]

ServerError ==
  {ServerBadRequest(m) : m \in Messages}
    \cup {ServerInternal(e) : e \in Errors}
    \cup {ServerNotAcceptable(a, c) : a \in AcceptEncodings, c \in ContentEncodings}
    \cup {ServerNotFound(m) : m \in Messages}

\* fault injection: the two Accept-Encoding suffixes exchanged
NotAcceptableMessage_swapped(accept_encoding, content_encoding) ==
  LET message == "inscription content encoding " \o Grave
                   \o from_utf8_lossy(content_encoding)
                   \o Grave \o " is not acceptable."
  IN IF ~accept_encoding.some
       THEN message \o " " \o Grave \o "Accept-Encoding" \o Grave \o " header: "
              \o Grave \o Grave
       ELSE message \o " " \o Grave \o "Accept-Encoding" \o Grave
              \o " header not present"

\* the message of the NotAcceptable arm
NotAcceptableMessage(accept_encoding, content_encoding) ==
  LET message == "inscription content encoding " \o Grave
                   \o from_utf8_lossy(content_encoding)
                   \o Grave \o " is not acceptable."
  IN IF accept_encoding.some
       THEN message \o " " \o Grave \o "Accept-Encoding" \o Grave \o " header: "
              \o Grave \o accept_encoding.value \o Grave
       ELSE message \o " " \o Grave \o "Accept-Encoding" \o Grave
              \o " header not present"

\* impl IntoResponse for ServerError: the response and the lines it prints
ServerError_arms(self) ==
  CASE self.tag = "BadRequest" ->
         [response |-> TextResponse(BAD_REQUEST, {}, self.message),
          eprintln |-> <<>>]
    [] self.tag = "Internal" ->
         [response |-> TextResponse(INTERNAL_SERVER_ERROR, {},
                         unwrap_or_default(canonical_reason(INTERNAL_SERVER_ERROR))),
          eprintln |-> <<"error serving request: " \o to_string(self.error)>>]
    [] self.tag = "NotAcceptable" ->
         [response |-> TextResponse(NOT_ACCEPTABLE, {},
                         NotAcceptableMessage(self.accept_encoding, self.content_encoding)),
          eprintln |-> <<>>]
    [] self.tag = "NotFound" ->
         [response |-> TextResponse(NOT_FOUND, {<<CACHE_CONTROL, "no-store">>},
                                    self.message),
          eprintln |-> <<>>]

\* fault injection: NotAcceptable answered as a bad request
ServerError_into_response_406_as_400(self) ==
  IF self.tag = "NotAcceptable"
    THEN [response |-> TextResponse(BAD_REQUEST, {},
                         NotAcceptableMessage(self.accept_encoding, self.content_encoding)),
          eprintln |-> <<>>]
    ELSE ServerError_arms(self)

\* fault injection: the Internal arm answers with the cause
ServerError_into_response_leaking(self) ==
  IF self.tag = "Internal"
    THEN [response |-> TextResponse(INTERNAL_SERVER_ERROR, {}, to_string(self.error)),
          eprintln |-> <<"error serving request: " \o to_string(self.error)>>]
    ELSE ServerError_arms(self)

\* fault injection: every response is marked no-store
ServerError_into_response_no_store_everywhere(self) ==
  LET out == ServerError_arms(self)
  IN [out EXCEPT !.response.headers = @ \cup {<<CACHE_CONTROL, "no-store">>}]

\* fault injection: bad requests are reported to the operator as well
ServerError_into_response_logging_bad_request(self) ==
  IF self.tag = "BadRequest"
    THEN [response |-> TextResponse(BAD_REQUEST, {}, self.message),
          eprintln |-> <<"error serving request: " \o self.message>>]
    ELSE ServerError_arms(self)

ServerError_into_response(self) == ServerError_arms(self)

\* fault injection: the label is computed before the option is inspected
ok_or_not_found_eager(self, label) ==
  LET message == label \o " not found"
  IN IF self.some
       THEN [result |-> [ok |-> TRUE, value |-> self.value], calls |-> 1]
       ELSE [result |-> [ok |-> FALSE,
                         err |-> [tag |-> "NotFound", message |-> message]],
             calls |-> 1]

\* fault injection: the suffix is left out
ok_or_not_found_bare_label(self, label) ==
  IF self.some
    THEN [result |-> [ok |-> TRUE, value |-> self.value], calls |-> 0]
    ELSE [result |-> [ok |-> FALSE,
                      err |-> [tag |-> "NotFound", message |-> label]],
          calls |-> 1]

\* impl OptionExt<T> for Option<T>: the result and how often f ran
Ok(v) == [ok |-> TRUE, value |-> v]
Err(e) == [ok |-> FALSE, err |-> e]

ok_or_not_found(self, label) ==
  IF self.some
    THEN [result |-> Ok(self.value), calls |-> 0]
    ELSE [result |-> Err(ServerNotFound(label \o " not found")), calls |-> 1]

\* impl From<Error> for ServerError
ServerError_from(error) == ServerInternal(error)

(***************************************************************************)
(* ApiError                                                                *)
(***************************************************************************)
ApiInternal(message) == [tag |-> "Internal", message |-> message]
ApiBadRequest(message) == [tag |-> "BadRequest", message |-> message]
ApiNotFound(message) == [tag |-> "NotFound", message |-> message]

\* fault injection: the discriminant taken from the declaration position
code_by_position(self) ==
  CASE self.tag = "Internal" -> 0
    [] self.tag = "BadRequest" -> 1
    [] self.tag = "NotFound" -> 2

code(self) ==
  CASE self.tag = "Internal" -> 1
    [] self.tag = "BadRequest" -> 2
    [] self.tag = "NotFound" -> 3

not_found(message) == ApiNotFound(to_string(message))
internal(message) == ApiInternal(to_string(message))
bad_request(message) == ApiBadRequest(to_string(message))

\* impl Serialize for ApiError: the struct handed to the serializer, its
\* fields in the order they are written
I32(n) == [i32 |-> n]
JsonStr(s) == [str |-> s]

serialize(self) ==
  [name |-> "ApiError",
   len |-> 2,
   fields |-> <<[key |-> "code", value |-> I32(code(self))],
                [key |-> "msg", value |-> JsonStr(self.message)]>>]

\* fault injection: a missing resource answered as a bad request
ApiError_into_response_404_as_400(self) ==
  LET status_code == CASE self.tag = "Internal" -> INTERNAL_SERVER_ERROR
                       [] self.tag = "BadRequest" -> BAD_REQUEST
                       [] self.tag = "NotFound" -> BAD_REQUEST
  IN [response |-> JsonResponse(status_code, serialize(self)),
      eprintln |-> <<>>]

\* impl IntoResponse for ApiError
ApiError_into_response(self) ==
  LET status_code == CASE self.tag = "Internal" -> INTERNAL_SERVER_ERROR
                       [] self.tag = "BadRequest" -> BAD_REQUEST
                       [] self.tag = "NotFound" -> NOT_FOUND
  IN [response |-> JsonResponse(status_code, serialize(self)),
      eprintln |-> <<>>]

\* fault injection: the opaque error classified as the client's fault
ApiError_from_bad_request(error) == bad_request(error)

\* impl From<anyhow::Error> for ApiError
ApiError_from(error) == internal(error)

(***************************************************************************)
(* The requests                                                            *)
(***************************************************************************)
NoInput == [op |-> "none"]
NoValue == [some |-> FALSE]
NoFailure == [taxonomy |-> "none"]
NoJson == [name |-> "none"]
NoResponse == [status |-> 0]

Init ==
  /\ pc = [r \in Requests |-> "idle"]
  /\ input = [r \in Requests |-> NoInput]
  /\ value = [r \in Requests |-> NoValue]
  /\ labelRuns = [r \in Requests |-> 0]
  /\ failure = [r \in Requests |-> NoFailure]
  /\ json = [r \in Requests |-> NoJson]
  /\ response = [r \in Requests |-> NoResponse]
  /\ stderr = <<>>

Fail(r, in, taxonomy, err) ==
  /\ pc' = [pc EXCEPT ![r] = "failed"]
  /\ input' = [input EXCEPT ![r] = in]
  /\ failure' = [failure EXCEPT ![r] = [taxonomy |-> taxonomy, err |-> err]]

\* a handler builds a ServerError variant at the failure site
Raise(r) ==
  /\ pc[r] = "idle"
  /\ \E err \in ServerError : Fail(r, [op |-> "variant"], "ServerError", err)
  /\ UNCHANGED <<value, labelRuns, json, response, stderr>>

\* a collaborator's opaque error is converted with `?` on the plain surface
FromError(r) ==
  /\ pc[r] = "idle"
  /\ \E error \in Errors :
       Fail(r, [op |-> "from", error |-> error], "ServerError",
            ServerError_from(error))
  /\ UNCHANGED <<value, labelRuns, json, response, stderr>>

\* a lookup result goes through ok_or_not_found with a label closure
OkOrNotFound(r) ==
  /\ pc[r] = "idle"
  /\ \E self \in {None} \cup {Some(v) : v \in Values}, label \in Labels :
       LET out == ok_or_not_found(self, label)
           in == [op |-> "ok_or_not_found", self |-> self, label |-> label]
       IN /\ labelRuns' = [labelRuns EXCEPT ![r] = @ + out.calls]
          /\ IF out.result.ok
               THEN /\ pc' = [pc EXCEPT ![r] = "ok"]
                    /\ input' = [input EXCEPT ![r] = in]
                    /\ value' = [value EXCEPT ![r] = Some(out.result.value)]
                    /\ UNCHANGED failure
               ELSE /\ Fail(r, in, "ServerError", out.result.err)
                    /\ UNCHANGED value
  /\ UNCHANGED <<json, response, stderr>>

\* an API handler builds an ApiError with one of the three constructors
ApiRaise(r) ==
  /\ pc[r] = "idle"
  /\ \E m \in Messages :
       \/ Fail(r, [op |-> "internal", message |-> m], "ApiError", internal(Str(m)))
       \/ Fail(r, [op |-> "bad_request", message |-> m], "ApiError", bad_request(Str(m)))
       \/ Fail(r, [op |-> "not_found", message |-> m], "ApiError", not_found(Str(m)))
  /\ UNCHANGED <<value, labelRuns, json, response, stderr>>

\* a collaborator's opaque error is converted with `?` on the API surface
ApiFromError(r) ==
  /\ pc[r] = "idle"
  /\ \E error \in Errors :
       Fail(r, [op |-> "from", error |-> error], "ApiError", ApiError_from(error))
  /\ UNCHANGED <<value, labelRuns, json, response, stderr>>

\* serde_json::to_string(&api_error)
Serialize(r) ==
  /\ pc[r] = "failed"
  /\ failure[r].taxonomy = "ApiError"
  /\ json[r] = NoJson
  /\ json' = [json EXCEPT ![r] = serialize(failure[r].err)]
  /\ UNCHANGED <<pc, input, value, labelRuns, failure, response, stderr>>

\* the framework turns the handler's ServerError into the response
ServerRespond(r) ==
  /\ pc[r] = "failed"
  /\ failure[r].taxonomy = "ServerError"
  /\ LET out == ServerError_into_response(failure[r].err)
     IN /\ Len(stderr) + Len(out.eprintln) <= MaxLines
        /\ response' = [response EXCEPT ![r] = out.response]
        /\ stderr' = stderr \o out.eprintln
  /\ pc' = [pc EXCEPT ![r] = "responded"]
  /\ UNCHANGED <<input, value, labelRuns, failure, json>>

\* the framework turns the handler's ApiError into the response
ApiRespond(r) ==
  /\ pc[r] = "failed"
  /\ failure[r].taxonomy = "ApiError"
  /\ LET out == ApiError_into_response(failure[r].err)
     IN /\ Len(stderr) + Len(out.eprintln) <= MaxLines
        /\ response' = [response EXCEPT ![r] = out.response]
        /\ stderr' = stderr \o out.eprintln
  /\ pc' = [pc EXCEPT ![r] = "responded"]
  /\ UNCHANGED <<input, value, labelRuns, failure, json>>

\* the request is over and its values are dropped
Complete(r) ==
  /\ pc[r] \in {"ok", "responded"}
  /\ pc' = [pc EXCEPT ![r] = "idle"]
  /\ input' = [input EXCEPT ![r] = NoInput]
  /\ value' = [value EXCEPT ![r] = NoValue]
  /\ labelRuns' = [labelRuns EXCEPT ![r] = 0]
  /\ failure' = [failure EXCEPT ![r] = NoFailure]
  /\ json' = [json EXCEPT ![r] = NoJson]
  /\ response' = [response EXCEPT ![r] = NoResponse]
  /\ UNCHANGED stderr

Next ==
  \E r \in Requests :
    \/ Raise(r)
    \/ FromError(r)
    \/ OkOrNotFound(r)
    \/ ApiRaise(r)
    \/ ApiFromError(r)
    \/ Serialize(r)
    \/ ServerRespond(r)
    \/ ApiRespond(r)
    \/ Complete(r)

Spec == Init /\ [][Next]_vars

(***************************************************************************)
(* Properties                                                              *)
(***************************************************************************)
Responded(r) == pc[r] = "responded"
OnServer(r) == failure[r].taxonomy = "ServerError"
OnApi(r) == failure[r].taxonomy = "ApiError"
HeaderNames(resp) == {h[1] : h \in resp.headers}

\* the discriminant the wire contract fixes for each constructor
WireCode(op) ==
  CASE op = "internal" -> 1 [] op = "bad_request" -> 2 [] op = "not_found" -> 3

\* C1: serializing ApiError::internal(m), bad_request(m) and not_found(m)
\* gives a struct of exactly two fields, "code" then "msg", with code 1, 2
\* and 3 respectively and msg equal to m.
C1_SerializeCodeThenMsg ==
  \A r \in Requests :
    (json[r] # NoJson /\ input[r].op \in {"internal", "bad_request", "not_found"}) =>
      /\ json[r].len = 2
      /\ Len(json[r].fields) = 2
      /\ json[r].fields[1] = [key |-> "code", value |-> [i32 |-> WireCode(input[r].op)]]
      /\ json[r].fields[2] = [key |-> "msg", value |-> [str |-> input[r].message]]

C1_Witness ==
  \E r \in Requests :
    /\ json[r] # NoJson
    /\ input[r].op = "not_found"
    /\ input[r].message = "bad request"

\* C2: ApiError::into_response answers 500 for Internal, 400 for BadRequest
\* and 404 for NotFound, with a JSON body whose code is that of the same
\* variant (1, 2, 3) and whose msg is the carried message.
C2_ApiStatusMatchesCode ==
  \A r \in Requests :
    (Responded(r) /\ OnApi(r)) =>
      LET tag == failure[r].err.tag
          resp == response[r]
          pair == CASE tag = "Internal" -> <<500, 1>>
                    [] tag = "BadRequest" -> <<400, 2>>
                    [] tag = "NotFound" -> <<404, 3>>
      IN /\ resp.status = pair[1]
         /\ resp.body.kind = "json"
         /\ resp.body.json.fields =
              <<[key |-> "code", value |-> [i32 |-> pair[2]]],
                [key |-> "msg", value |-> [str |-> failure[r].err.message]]>>

C2_Witness ==
  \E r \in Requests :
    /\ Responded(r)
    /\ OnApi(r)
    /\ failure[r].err.tag = "NotFound"
    /\ response[r].status = 404

\* C3: ServerError::into_response maps BadRequest(m) to 400 with body m,
\* Internal to 500, NotAcceptable to 406 and NotFound(m) to 404 with body m;
\* every variant gets one status of {400, 404, 406, 500} and a failed
\* request can always be converted (while the error stream has room).
C3_ServerStatusMapping ==
  \A r \in Requests :
    /\ (Responded(r) /\ OnServer(r)) =>
         LET err == failure[r].err
             resp == response[r]
         IN /\ resp.status \in {400, 404, 406, 500}
            /\ resp.body.kind = "text"
            /\ err.tag = "BadRequest" =>
                 (resp.status = 400 /\ resp.body.text = err.message)
            /\ err.tag = "Internal" => resp.status = 500
            /\ err.tag = "NotAcceptable" => resp.status = 406
            /\ err.tag = "NotFound" =>
                 (resp.status = 404 /\ resp.body.text = err.message)
    /\ (pc[r] = "failed" /\ OnServer(r) /\ Len(stderr) < MaxLines) =>
         ENABLED ServerRespond(r)

C3_Witness ==
  \E r \in Requests :
    /\ Responded(r)
    /\ OnServer(r)
    /\ failure[r].err.tag = "NotAcceptable"
    /\ response[r].status = 406

FromOpaque(r) == Responded(r) /\ input[r].op = "from"

\* C4 as stated: on either surface, two opaque errors of different content,
\* converted into the taxonomy and then into a response, give the same
\* status and body.
C4_Original ==
  \A r1, r2 \in Requests :
    (FromOpaque(r1) /\ FromOpaque(r2)
       /\ failure[r1].taxonomy = failure[r2].taxonomy) =>
      /\ response[r1].status = response[r2].status
      /\ response[r1].body = response[r2].body

\* C4 amended: on the plain surface (ServerError) every Internal failure is
\* answered with status 500 and the body "Internal Server Error", whatever
\* the cause, so two different opaque errors give identical responses; on
\* the API surface the body carries the cause's message as msg.
C4_GenericOnPlainSurface ==
  /\ \A r \in Requests :
       (Responded(r) /\ OnServer(r) /\ failure[r].err.tag = "Internal") =>
         /\ response[r].status = 500
         /\ response[r].body = [kind |-> "text", text |-> "Internal Server Error"]
  /\ \A r1, r2 \in Requests :
       (FromOpaque(r1) /\ FromOpaque(r2) /\ OnServer(r1) /\ OnServer(r2)) =>
         response[r1] = response[r2]
  /\ \A r \in Requests :
       (FromOpaque(r) /\ OnApi(r)) =>
         response[r].body.json.fields[2].value = [str |-> input[r].error.text]

C4_Witness ==
  \E r1, r2 \in Requests :
    /\ FromOpaque(r1) /\ FromOpaque(r2)
    /\ OnServer(r1) /\ OnServer(r2)
    /\ input[r1].error.text # input[r2].error.text
    /\ input[r1].error.source # input[r2].error.source

\* C5: a ServerError response carries Cache-Control: no-store exactly when
\* the error is NotFound; no other variant sets a Cache-Control header.
C5_NoStoreIffNotFound ==
  \A r \in Requests :
    (Responded(r) /\ OnServer(r)) =>
      /\ (CACHE_CONTROL \in HeaderNames(response[r])) <=> (failure[r].err.tag = "NotFound")
      /\ \A h \in response[r].headers : h[1] = CACHE_CONTROL => h[2] = "no-store"

C5_Witness ==
  \E r1, r2 \in Requests :
    /\ Responded(r1) /\ OnServer(r1) /\ failure[r1].err.tag = "NotFound"
    /\ <<"cache-control", "no-store">> \in response[r1].headers
    /\ Responded(r2) /\ OnServer(r2) /\ failure[r2].err.tag = "BadRequest"

Converts(r) == pc[r] = "failed" /\ pc'[r] = "responded"

\* C6 as stated: in either taxonomy, converting an Internal failure prints
\* exactly one line, and converting any other kind prints nothing.
C6_Original ==
  [][\A r \in Requests :
       Converts(r) =>
         IF failure[r].err.tag = "Internal"
           THEN Len(stderr') = Len(stderr) + 1
           ELSE stderr' = stderr]_vars

\* C6 amended: converting ServerError::Internal prints exactly one line,
\* "error serving request: " followed by the cause's Display text; converting
\* any other ServerError kind, or any ApiError (Internal included), prints
\* nothing; and nothing is printed before the conversion.
C6_OnlyServerInternalLogged ==
  [][/\ \A r \in Requests :
          Converts(r) =>
            IF OnServer(r) /\ failure[r].err.tag = "Internal"
              THEN stderr' = Append(stderr, "error serving request: "
                                              \o failure[r].err.error.text)
              ELSE stderr' = stderr
     /\ (\A r \in Requests : ~Converts(r)) => stderr' = stderr]_vars

C6_Witness ==
  \E r1, r2 \in Requests :
    /\ Responded(r1) /\ OnServer(r1) /\ failure[r1].err.tag = "Internal"
    /\ failure[r1].err.error.text = "db password rejected"
    /\ Responded(r2) /\ OnApi(r2) /\ failure[r2].err.tag = "Internal"
    /\ stderr = <<"error serving request: db password rejected">>

\* C7: ok_or_not_found does not run the label function for Some(v), where it
\* returns Ok(v); the label function runs exactly once for None.
C7_LabelIsLazy ==
  \A r \in Requests :
    /\ input[r].op = "ok_or_not_found" =>
         IF input[r].self.some
           THEN labelRuns[r] = 0 /\ pc[r] = "ok" /\ value[r] = input[r].self
           ELSE labelRuns[r] = 1
    /\ input[r].op # "ok_or_not_found" => labelRuns[r] = 0

C7_Witness ==
  \E r1, r2 \in Requests :
    /\ input[r1].op = "ok_or_not_found" /\ input[r1].self.some /\ pc[r1] = "ok"
    /\ input[r2].op = "ok_or_not_found" /\ ~input[r2].self.some
    /\ labelRuns[r2] = 1

\* the message expected for each label
NotFoundText(label) ==
  CASE label = "" -> " not found"
    [] label = "inscription 7" -> "inscription 7 not found"

\* C8: ok_or_not_found returns the contained value unchanged when present;
\* when absent it fails with NotFound, and no other variant, whose message is
\* the label followed by " not found", so the response is 404 with that
\* message as body.
C8_AbsentBecomesNotFound ==
  \A r \in Requests :
    input[r].op = "ok_or_not_found" =>
      IF input[r].self.some
        THEN /\ pc[r] = "ok"
             /\ value[r] = [some |-> TRUE, value |-> input[r].self.value]
             /\ failure[r] = NoFailure
        ELSE /\ pc[r] \in {"failed", "responded"}
             /\ value[r] = NoValue
             /\ failure[r] = [taxonomy |-> "ServerError",
                              err |-> [tag |-> "NotFound",
                                       message |-> NotFoundText(input[r].label)]]
             /\ Responded(r) =>
                  /\ response[r].status = 404
                  /\ response[r].body = [kind |-> "text",
                                         text |-> NotFoundText(input[r].label)]

C8_Witness ==
  \E r1, r2 \in Requests :
    /\ input[r1].op = "ok_or_not_found" /\ ~input[r1].self.some
    /\ input[r1].label = "inscription 7"
    /\ Responded(r1)
    /\ response[r1].body.text = "inscription 7 not found"
    /\ input[r2].op = "ok_or_not_found" /\ input[r2].self.some /\ pc[r2] = "ok"

\* C9: converting an opaque error is total and lands in Internal for any
\* content, the empty message included: ServerError gets Internal(cause)
\* with the same cause, ApiError gets Internal(stringified cause) with code 1.
C9_OpaqueBecomesInternal ==
  \A r \in Requests :
    /\ input[r].op = "from" =>
         /\ failure[r].err.tag = "Internal"
         /\ OnServer(r) => failure[r].err = [tag |-> "Internal", error |-> input[r].error]
         /\ OnApi(r) =>
              /\ failure[r].err = [tag |-> "Internal", message |-> input[r].error.text]
              /\ json[r] # NoJson => json[r].fields[1].value = [i32 |-> 1]
    /\ pc[r] = "idle" => (ENABLED FromError(r) /\ ENABLED ApiFromError(r))

C9_Witness ==
  \E r1, r2 \in Requests :
    /\ input[r1].op = "from" /\ OnServer(r1) /\ input[r1].error.text = ""
    /\ input[r2].op = "from" /\ OnApi(r2) /\ input[r2].error.text = ""
    /\ input[r2].error.source # <<>>
    /\ json[r2] # NoJson

\* the text of each content encoding
EncodingText(content_encoding) ==
  CASE content_encoding = <<98, 114>> -> "br"
    [] content_encoding = <<255>> -> REPLACEMENT_CHARACTER
    [] content_encoding = <<98, 255>> -> "b" \o REPLACEMENT_CHARACTER

\* C10: the NotAcceptable body is "inscription content encoding
\* <grave>content_encoding<grave> is not acceptable." followed by the
\* Accept-Encoding value when the header is present and by the "not present"
\* phrase when it is absent; the status is 406 in both cases.
C10_NotAcceptableBody ==
  \A r \in Requests :
    (Responded(r) /\ OnServer(r) /\ failure[r].err.tag = "NotAcceptable") =>
      LET err == failure[r].err
          head == "inscription content encoding " \o Grave
                    \o EncodingText(err.content_encoding) \o Grave
                    \o " is not acceptable."
          present == " " \o Grave \o "Accept-Encoding" \o Grave \o " header: "
                       \o Grave \o err.accept_encoding.value \o Grave
          absent == " " \o Grave \o "Accept-Encoding" \o Grave \o " header not present"
      IN /\ response[r].status = 406
         /\ response[r].body.kind = "text"
         /\ response[r].body.text =
              IF err.accept_encoding = [some |-> FALSE] THEN head \o absent
              ELSE head \o present

C10_Witness ==
  \E r1, r2 \in Requests :
    /\ Responded(r1) /\ OnServer(r1) /\ failure[r1].err.tag = "NotAcceptable"
    /\ failure[r1].err.accept_encoding = [some |-> TRUE, value |-> "gzip, deflate"]
    /\ failure[r1].err.content_encoding = <<98, 114>>
    /\ Responded(r2) /\ OnServer(r2) /\ failure[r2].err.tag = "NotAcceptable"
    /\ failure[r2].err.accept_encoding = [some |-> FALSE]

====
